---- MODULE Spec2Model ----
(***************************************************************************)
(* A model of infrabayes: sa-measures (sa_measure.py), Gauss-Hermite       *)
(* quadrature and its memoised node table (integration.py), and the two    *)
(* InfraPolytope variants (infradistribution.py, infra_distribution.py).   *)
(*                                                                         *)
(* Numbers.  A real number x is held as the integer Unit * x (fixed point  *)
(* in quarters), so that probabilities 1/4, 3/4 and the two-point          *)
(* quadrature weights 1/2 are exact.  Every input below keeps products     *)
(* exact: one factor of each product is a whole number.                    *)
(*                                                                         *)
(* Python values are records with a "type" field, as isinstance sees them. *)
(***************************************************************************)
EXTENDS Integers, Sequences, FiniteSets, TLC

VARIABLES heap, last, poly, plast, cache, pc, ret, computed

vars == <<heap, last, poly, plast, cache, pc, ret, computed>>

\* ------------------------------------------------------------- bounds
\* The largest number of SaMeasure objects alive in one run.
MaxHeap == 2
\* The largest number of executions of gauss_hermite_params' body in one run.
MaxComputes == 5
\* functools.lru_cache() keeps at most maxsize = 128 entries; the model keeps
\* the mechanism and scales the size down so that a run can fill the cache.
CacheMaxsize == 2

\* ------------------------------------------------------------ numbers
\* quarters
Unit == 2 * 2

Times(x, y) == (x * y) \div Unit

\* math.sqrt / th.sqrt on the perfect squares the inputs produce
Sqrt(x) == CHOOSE r \in 0..(x + Unit) : Times(r, r) = x

\* ------------------------------------------------------------ tensors
None == [type |-> "NoneType"]

Tensor(shape, data) == [type |-> "Tensor", shape |-> shape, data |-> data]

Scalar(x) == Tensor(<<>>, <<x>>)

Float(x) == [type |-> "float", v |-> x]

PyInt(x) == [type |-> "int", v |-> x]

PyStr == [type |-> "str"]

Error(kind) == [type |-> "Error", kind |-> kind]

RECURSIVE Numel(_)
Numel(shape) == IF shape = <<>> THEN 1 ELSE Head(shape) * Numel(Tail(shape))

\* th.as_tensor: a Python number becomes a 0-dim tensor, a tensor is itself
as_tensor(x) == IF x.type = "Tensor" THEN x ELSE Scalar(x.v)

At(t, i) == IF t.shape = <<>> THEN t.data[1] ELSE t.data[i]

BroadcastShape(a, b) == IF a.shape = <<>> THEN b.shape ELSE a.shape

\* elementwise arithmetic with broadcasting of 0-dim operands
TAdd(a, b) ==
    LET s == BroadcastShape(a, b)
    IN  Tensor(s, [i \in 1..Numel(s) |-> At(a, i) + At(b, i)])

TSub(a, b) ==
    LET s == BroadcastShape(a, b)
    IN  Tensor(s, [i \in 1..Numel(s) |-> At(a, i) - At(b, i)])

TMul(a, b) ==
    LET s == BroadcastShape(a, b)
    IN  Tensor(s, [i \in 1..Numel(s) |-> Times(At(a, i), At(b, i))])

\* th.sqrt, elementwise
Sqrt_t(t) == Tensor(t.shape, [i \in 1..Numel(t.shape) |-> Sqrt(t.data[i])])

ones_like(t) == Tensor(t.shape, [i \in 1..Numel(t.shape) |-> Unit])

zeros_like(t) == Tensor(t.shape, [i \in 1..Numel(t.shape) |-> 0])

\* ------------------------------------------------- the caller's function f
\* f is any elementwise function of a tensor; the model draws it from these.
Functions == {"x", "x^2", "1-x"}

ApplyAt(f, x) ==
    CASE f = "x" -> x
      [] f = "x^2" -> Times(x, x)
      [] f = "1-x" -> Unit - x

Apply(f, t) == Tensor(t.shape, [i \in 1..Numel(t.shape) |-> ApplyAt(f, t.data[i])])

\* ------------------------------------------------------ distributions
Bernoulli(probs) == [type |-> "Bernoulli", probs |-> probs]

Normal(loc, scale) == [type |-> "Normal", loc |-> loc, scale |-> scale]

\* a family sa_measure.py has no branch for
Exponential(rate) == [type |-> "Exponential", rate |-> rate]

IsDistribution(x) == x.type \in {"Bernoulli", "Normal", "Exponential"}

batch_shape(mu) ==
    CASE mu.type = "Bernoulli" -> mu.probs.shape
      [] mu.type = "Normal" -> mu.loc.shape
      [] mu.type = "Exponential" -> mu.rate.shape

\* Normal.mean and Normal.variance
mean(mu) == mu.loc

variance(mu) == TMul(mu.scale, mu.scale)

\* ---------------------------------------------------- integration.py
\* The default node count of SaMeasure.__call__ and gauss_hermite_quadrature.
DefaultN == 20

\* np.polynomial.hermite.hermgauss(n).  The nodes are held times sqrt(2) and
\* the weights divided by sqrt(pi): the two irrational factors that
\* gauss_hermite_quadrature multiplies back in (lines 30 and 34).
\*   n = 1: node 0, weight sqrt(pi);  n = 2: nodes -+1/sqrt(2), weights sqrt(pi)/2.
\* An n-point rule is exact for polynomials of degree < 2n, so for n >= 2 and
\* the functions of this model (degree <= 2) every rule returns what the
\* two-point rule returns; the table holds that rule for them.
hermgauss(n) ==
    IF n = 1
    THEN [locs |-> <<0>>, weights |-> <<Unit>>]
    ELSE [locs |-> <<0 - Unit, Unit>>, weights |-> <<Unit \div 2, Unit \div 2>>]

NodeCounts == {1, DefaultN}

gauss_hermite_params(n) == hermgauss(n)

RECURSIVE SumTensors(_)
SumTensors(ts) ==
    IF Len(ts) = 1 THEN ts[1] ELSE TAdd(ts[1], SumTensors(Tail(ts)))

gauss_hermite_quadrature(mu, f, n) ==
    LET sig_sq == variance(mu)
        params == gauss_hermite_params(n)
        shifted_locs(i) == TAdd(TMul(Sqrt_t(sig_sq), Scalar(params.locs[i])), mean(mu))
        res(i) == TMul(Apply(f, shifted_locs(i)), Scalar(params.weights[i]))
    IN  SumTensors([i \in 1..Len(params.locs) |-> res(i)])

\* ------------------------------------------------------ sa_measure.py
SaMeasure(mu, scale, bias) ==
    [type |-> "SaMeasure", mu |-> mu, scale |-> scale, bias |-> bias]

\* mu.entropy(): one opaque term per batch element, a function of mu alone
SaMeasure_entropy(self) ==
    [type |-> "Entropy", shape |-> batch_shape(self.mu), of |-> self.mu]

SaMeasure_add(self, other) ==
    IF other.type \in {"float", "Tensor"}
    THEN LET new_bias == IF self.bias # None
                         THEN TAdd(self.bias, as_tensor(other))
                         ELSE other
         IN  SaMeasure(self.mu, self.scale, as_tensor(new_bias))
    ELSE IF other.type = "SaMeasure"
    THEN Error("NotImplementedError")
    ELSE Error("TypeError")

\* the transform with the two steps in the other order
AffineTransform_biasFirst(self, E) ==
    LET E1 == IF self.bias # None THEN TAdd(E, self.bias) ELSE E
    IN  IF self.scale # None THEN TMul(E1, self.scale) ELSE E1

\* lines 63-68: scale first, then bias, each only when present
AffineTransform(self, E) ==
    LET E1 == IF self.scale # None THEN TMul(E, self.scale) ELSE E
    IN  IF self.bias # None THEN TAdd(E1, self.bias) ELSE E1

BernoulliExpectation(mu, f) ==
    LET p == mu.probs
    IN  TAdd(TMul(p, Apply(f, ones_like(p))),
             TMul(TSub(Scalar(Unit), p), Apply(f, zeros_like(p))))

\* the call without its final else: an unknown family yields a number
SaMeasure_call_silent(self, f, n) ==
    IF self.mu.type = "Bernoulli"
    THEN AffineTransform(self, BernoulliExpectation(self.mu, f))
    ELSE IF self.mu.type = "Normal"
    THEN AffineTransform(self, gauss_hermite_quadrature(self.mu, f, n))
    ELSE AffineTransform(self, zeros_like(self.mu.rate))

SaMeasure_call(self, f, n) ==
    IF self.mu.type = "Bernoulli"
    THEN AffineTransform(self, BernoulliExpectation(self.mu, f))
    ELSE IF self.mu.type = "Normal"
    THEN AffineTransform(self, gauss_hermite_quadrature(self.mu, f, n))
    ELSE Error("NotImplementedError")

SaMeasure_mul(self, scalar) ==
    LET new_scale == IF self.scale # None THEN TMul(self.scale, as_tensor(scalar)) ELSE None
        new_bias == IF self.bias # None THEN TMul(self.bias, as_tensor(scalar)) ELSE None
    IN  SaMeasure(self.mu, new_scale, new_bias)

\* ------------------------------------------------------------- inputs
Probs == {1, 3}

BaseDistributions ==
    {Bernoulli(Scalar(p)) : p \in Probs}
    \cup {Bernoulli(Tensor(<<2>>, <<1, 3>>))}
    \cup {Normal(Tensor(<<2>>, <<0 - Unit, Unit>>), Tensor(<<2>>, <<Unit, 2 * Unit>>))}
    \cup {Exponential(Scalar(Unit))}

ScaleInputs == {None, Scalar(2 * Unit)}

BiasInputs == {None, Scalar(Unit)}

InitialMeasures ==
    {SaMeasure(mu, s, b) : mu \in BaseDistributions, s \in ScaleInputs, b \in BiasInputs}

\* what a caller may write to the right of m +
AddOperands(h) ==
    {Float(Unit), PyInt(Unit), Scalar(0 - Unit), Tensor(<<2>>, <<0, Unit>>), PyStr, None}
    \cup {h[j] : j \in 1..Len(h)}

\* what a caller may write to the right of m *
MulOperands == {Float(2 * Unit), Float(0 - Unit), Scalar(3 * Unit)}

\* --------------------------------------------------- the measure heap
\* heap[i] is the SaMeasure object with identity i; last is the latest
\* operation: its receiver, its arguments and what it returned or raised.
Ref(i) == [type |-> "Ref", id |-> i]

Op(op, self, arg, f, n, out) ==
    [op |-> op, self |-> self, arg |-> arg, f |-> f, n |-> n, out |-> out]

InitRest ==
    /\ poly = None
    /\ plast = None
    /\ cache = <<>>
    /\ pc = [c \in {} |-> None]
    /\ ret = [c \in {} |-> None]
    /\ computed = 0

InitMeasure ==
    /\ \E m \in InitialMeasures : heap = <<m>>
    /\ last = Op("new", 1, None, "x", 1, Ref(1))
    /\ InitRest

Add ==
    \E self \in 1..Len(heap) : \E other \in AddOperands(heap) :
        LET r == SaMeasure_add(heap[self], other)
        IN  IF r.type = "SaMeasure"
            THEN /\ Len(heap) < MaxHeap
                 /\ heap' = Append(heap, r)
                 /\ last' = Op("add", self, other, "x", 1, Ref(Len(heap) + 1))
            ELSE /\ heap' = heap
                 /\ last' = Op("add", self, other, "x", 1, r)

\* multiplication that writes the products into the receiver
MulInPlace ==
    \E self \in 1..Len(heap) : \E scalar \in MulOperands :
        /\ heap' = [heap EXCEPT ![self] = SaMeasure_mul(heap[self], scalar)]
        /\ last' = Op("mul", self, scalar, "x", 1, Ref(self))

Mul ==
    \E self \in 1..Len(heap) : \E scalar \in MulOperands :
        /\ Len(heap) < MaxHeap
        /\ heap' = Append(heap, SaMeasure_mul(heap[self], scalar))
        /\ last' = Op("mul", self, scalar, "x", 1, Ref(Len(heap) + 1))

Call ==
    \E self \in 1..Len(heap) : \E f \in Functions : \E n \in NodeCounts :
        /\ heap' = heap
        /\ last' = Op("call", self, None, f, n, SaMeasure_call(heap[self], f, n))

Entropy ==
    \E self \in 1..Len(heap) :
        /\ heap' = heap
        /\ last' = Op("entropy", self, None, "x", 1, SaMeasure_entropy(heap[self]))

NextMeasure ==
    \/ Add /\ UNCHANGED <<poly, plast, cache, pc, ret, computed>>
    \/ Mul /\ UNCHANGED <<poly, plast, cache, pc, ret, computed>>
    \/ Call /\ UNCHANGED <<poly, plast, cache, pc, ret, computed>>
    \/ Entropy /\ UNCHANGED <<poly, plast, cache, pc, ret, computed>>

Spec == InitMeasure /\ [][NextMeasure]_vars

\* ============================================ the two InfraPolytopes
\* the k-th sub-tensor of t along axis d (0-based axis, 1-based k)
Slice(t, d, k) ==
    IF Len(t.shape) = 1
    THEN Scalar(t.data[k])
    ELSE LET r == t.shape[1]
             c == t.shape[2]
         IN  IF d = 0
             THEN Tensor(<<c>>, [j \in 1..c |-> t.data[(k - 1) * c + j]])
             ELSE Tensor(<<r>>, [i \in 1..r |-> t.data[(i - 1) * c + k]])

Minimum(S) == CHOOSE x \in S : \A y \in S : x <= y

\* Tensor.min(dim): torch.return_types.min, the pair (values, indices).  A
\* negative dim counts from the end; a 0-dim tensor accepts dim 0 and -1.
tensor_min(t, dim) ==
    LET rank == Len(t.shape)
        d == IF dim < 0 THEN dim + (IF rank = 0 THEN 1 ELSE rank) ELSE dim
    IN  IF d < 0 \/ d >= (IF rank = 0 THEN 1 ELSE rank)
        THEN Error("IndexError")
        ELSE IF rank = 0
        THEN [type |-> "min", values |-> t, indices |-> Scalar(0)]
        ELSE LET len == t.shape[d + 1]
                 sub(k) == Slice(t, d, k)
                 shape == sub(1).shape
                 low(i) == Minimum({sub(k).data[i] : k \in 1..len})
                 first(i) == Minimum({k \in 1..len : sub(k).data[i] = low(i)})
             IN  [type |-> "min",
                  values |-> Tensor(shape, [i \in 1..Numel(shape) |-> low(i)]),
                  indices |-> Tensor(shape, [i \in 1..Numel(shape) |-> first(i) - 1])]

\* infradistribution.py: a raw distribution is wrapped; no dim
InfraPolytope_init(batched_measure) ==
    LET bm == IF IsDistribution(batched_measure)
              THEN SaMeasure(batched_measure, None, None)
              ELSE batched_measure
    IN  IF batch_shape(bm.mu) = <<>>
        THEN Error("ValueError")
        ELSE [type |-> "InfraPolytope", module |-> "infradistribution",
              batched_measure |-> bm, dim |-> 0]

\* infra_distribution.py: reads batched_measure.mu at once; a distribution
\* has no attribute mu
InfraPolytope_init_dim(batched_measure, dim) ==
    IF batched_measure.type # "SaMeasure"
    THEN Error("AttributeError")
    ELSE LET num_batch_dims == Len(batch_shape(batched_measure.mu))
         IN  IF num_batch_dims <= dim
             THEN Error("ValueError")
             ELSE [type |-> "InfraPolytope", module |-> "infra_distribution",
                   batched_measure |-> batched_measure, dim |-> dim]

\* infradistribution.py line 65: self._batched_measure(f).min(dim=0).values
InfraPolytope_call(self, f) ==
    LET E == SaMeasure_call(self.batched_measure, f, DefaultN)
    IN  IF E.type = "Error" THEN E
        ELSE LET m == tensor_min(E, 0)
             IN  IF m.type = "Error" THEN m ELSE m.values

\* infra_distribution.py line 52: self._batched_measure(f).min(dim=self._dim)
InfraPolytope_call_dim(self, f) ==
    LET E == SaMeasure_call(self.batched_measure, f, DefaultN)
    IN  IF E.type = "Error" THEN E ELSE tensor_min(E, self.dim)

\* ------------------------------------------------------------- inputs
BatchShapes == {<<>>, <<2>>, <<3>>, <<2, 2>>}

BatchedDistributions ==
    UNION {
        {Bernoulli(Tensor(sh, d)) : d \in [1..Numel(sh) -> Probs]}
        \cup {Normal(Tensor(sh, d), Tensor(sh, [i \in 1..Numel(sh) |-> Unit]))
                 : d \in [1..Numel(sh) -> {0 - Unit, Unit}]}
        \cup {Exponential(Tensor(sh, [i \in 1..Numel(sh) |-> Unit]))}
        : sh \in BatchShapes}

BatchedMeasures ==
    {SaMeasure(mu, s, b) : mu \in BatchedDistributions,
                           s \in {None, Scalar(2 * Unit), Scalar(0 - Unit)},
                           b \in {None, Scalar(Unit)}}

Dims == {-1, 0, 1, 2}

POp(op, input, dim, f, out) ==
    [op |-> op, input |-> input, dim |-> dim, f |-> f, out |-> out]

InitPolytope ==
    /\ heap = <<>>
    /\ last = None
    /\ poly = None
    /\ plast = None
    /\ cache = <<>>
    /\ pc = [c \in {} |-> None]
    /\ ret = [c \in {} |-> None]
    /\ computed = 0

\* one run constructs once: a failed construction leaves no object behind
Construct ==
    /\ poly = None
    /\ plast = None
    /\ \E x \in BatchedDistributions \cup BatchedMeasures :
           LET r == InfraPolytope_init(x)
           IN  /\ poly' = IF r.type = "Error" THEN poly ELSE r
               /\ plast' = POp("init", x, 0, "x", r)

ConstructDim ==
    /\ poly = None
    /\ plast = None
    /\ \E x \in BatchedDistributions \cup BatchedMeasures : \E dim \in Dims :
           LET r == InfraPolytope_init_dim(x, dim)
           IN  /\ poly' = IF r.type = "Error" THEN poly ELSE r
               /\ plast' = POp("init_dim", x, dim, "x", r)

Evaluate ==
    /\ poly # None
    /\ poly.module = "infradistribution"
    /\ \E f \in Functions :
           /\ plast' = POp("call", None, 0, f, InfraPolytope_call(poly, f))
           /\ poly' = poly

EvaluateDim ==
    /\ poly # None
    /\ poly.module = "infra_distribution"
    /\ \E f \in Functions :
           /\ plast' = POp("call", None, poly.dim, f, InfraPolytope_call_dim(poly, f))
           /\ poly' = poly

NextPolytope ==
    \/ Construct /\ UNCHANGED <<heap, last, cache, pc, ret, computed>>
    \/ ConstructDim /\ UNCHANGED <<heap, last, cache, pc, ret, computed>>
    \/ Evaluate /\ UNCHANGED <<heap, last, cache, pc, ret, computed>>
    \/ EvaluateDim /\ UNCHANGED <<heap, last, cache, pc, ret, computed>>

SpecPolytope == InitPolytope /\ [][NextPolytope]_vars

\* ================================= the memoised gauss_hermite_params
\* @lru_cache() around gauss_hermite_params(n, device): the key is the
\* argument pair.  cache is the table in order of use, least recently used
\* first.  A call that misses runs the body outside the table's lock, so
\* other callers (threads evaluating gauss_hermite_quadrature) may run in
\* between; it then stores its result unless the key has arrived meanwhile.
Devices == {"cpu", "cuda"}

Keys == {[n |-> n, device |-> d] : n \in {1, DefaultN}, d \in Devices}

Callers == {1, 2}

Idle == [at |-> "idle"]

InBody(key) == [at |-> "body", key |-> key]

CacheKeys(c) == {c[i].key : i \in 1..Len(c)}

CacheIndex(c, key) == (CHOOSE i \in 1..Len(c) : c[i].key = key)

\* the body, lines 13-16: fresh tensors holding hermgauss(n) on the device
Compute(key, obj) ==
    [params |-> hermgauss(key.n), device |-> key.device, obj |-> obj]

Result(key, value) == [key |-> key, value |-> value]

\* a hit moves the entry to the most recently used end
CacheTouch(c, key) ==
    LET i == CacheIndex(c, key)
    IN  Append(SubSeq(c, 1, i - 1) \o SubSeq(c, i + 1, Len(c)), c[i])

\* a store that replaces the entry of a key that arrived meanwhile
CacheStore_overwrite(c, key, value) ==
    IF key \in CacheKeys(c)
    THEN [i \in 1..Len(c) |-> IF c[i].key = key THEN [key |-> key, value |-> value] ELSE c[i]]
    ELSE IF Len(c) >= CacheMaxsize
    THEN Append(Tail(c), [key |-> key, value |-> value])
    ELSE Append(c, [key |-> key, value |-> value])

\* the store after a miss: nothing if the key arrived meanwhile, else evict
\* the least recently used entry of a full table, then append
CacheStore(c, key, value) ==
    IF key \in CacheKeys(c)
    THEN c
    ELSE IF Len(c) >= CacheMaxsize
    THEN Append(Tail(c), [key |-> key, value |-> value])
    ELSE Append(c, [key |-> key, value |-> value])

InitCache ==
    /\ heap = <<>>
    /\ last = None
    /\ poly = None
    /\ plast = None
    /\ cache = <<>>
    /\ pc = [c \in Callers |-> Idle]
    /\ ret = [c \in Callers |-> None]
    /\ computed = 0

CallHit ==
    \E c \in Callers : \E key \in Keys :
        /\ pc[c] = Idle
        /\ key \in CacheKeys(cache)
        /\ ret' = [ret EXCEPT ![c] = Result(key, cache[CacheIndex(cache, key)].value)]
        /\ cache' = CacheTouch(cache, key)
        /\ UNCHANGED <<pc, computed>>

CallMiss ==
    \E c \in Callers : \E key \in Keys :
        /\ pc[c] = Idle
        /\ key \notin CacheKeys(cache)
        /\ computed + Cardinality({d \in Callers : pc[d] # Idle}) < MaxComputes
        /\ pc' = [pc EXCEPT ![c] = InBody(key)]
        /\ ret' = [ret EXCEPT ![c] = None]
        /\ UNCHANGED <<cache, computed>>

CallStore ==
    \E c \in Callers :
        /\ pc[c] # Idle
        /\ LET value == Compute(pc[c].key, computed + 1)
           IN  /\ cache' = CacheStore(cache, pc[c].key, value)
               /\ ret' = [ret EXCEPT ![c] = Result(pc[c].key, value)]
        /\ computed' = computed + 1
        /\ pc' = [pc EXCEPT ![c] = Idle]

NextCache ==
    \/ CallHit /\ UNCHANGED <<heap, last, poly, plast>>
    \/ CallMiss /\ UNCHANGED <<heap, last, poly, plast>>
    \/ CallStore /\ UNCHANGED <<heap, last, poly, plast>>

SpecCache == InitCache /\ [][NextCache]_vars

\* ===================================================== claims, Spec
Receiver == heap[last.self]

Returned == heap[last.out.id]

\* C2 (as stated): for a measure m with no bias, (m * a)(f) = a * m(f) for
\* every f, whether or not m has a scale.
C2_MulScalesExpectation ==
    (last.op = "mul" /\ Receiver.bias = None) =>
        \A f \in Functions : \A n \in NodeCounts :
            LET old == SaMeasure_call(Receiver, f, n)
                new == SaMeasure_call(Returned, f, n)
            IN  old.type = "Tensor" => new = TMul(as_tensor(last.arg), old)

\* C3 (as stated): for an integer or floating-point scalar b or a tensor b,
\* m + b succeeds and (m + b)(f) = m(f) + b for every f.
C3_AddShiftsExpectation ==
    (last.op = "add" /\ last.arg.type \in {"int", "float", "Tensor"}) =>
        /\ last.out.type = "Ref"
        /\ \A f \in Functions : \A n \in NodeCounts :
               LET old == SaMeasure_call(Receiver, f, n)
                   new == SaMeasure_call(Returned, f, n)
               IN  old.type = "Tensor" => new = TAdd(old, as_tensor(last.arg))

\* p * f(1) + (1 - p) * f(0), element by element
ClosedForm(p, f) ==
    Tensor(p.shape, [i \in 1..Numel(p.shape) |->
        Times(p.data[i], ApplyAt(f, Unit)) + Times(Unit - p.data[i], ApplyAt(f, 0))])

\* C4 (as stated): a measure over Bernoulli(p) evaluates f to
\* p * f(1) + (1 - p) * f(0), whatever its scale and bias are.
C4_BernoulliClosedFormAlways ==
    (last.op = "call" /\ Receiver.mu.type = "Bernoulli") =>
        last.out = ClosedForm(Receiver.mu.probs, last.f)

\* C4 (amended): a measure over Bernoulli(p) evaluates f to
\* (p * f(1) + (1 - p) * f(0)) * scale + bias, where an absent scale is 1 and
\* an absent bias is 0; with both absent it is the closed form itself.
C4_BernoulliClosedFormAffine ==
    (last.op = "call" /\ Receiver.mu.type = "Bernoulli") =>
        LET m == Receiver
            E == ClosedForm(m.mu.probs, last.f)
            s(i) == IF m.scale = None THEN Unit ELSE At(m.scale, i)
            b(i) == IF m.bias = None THEN 0 ELSE At(m.bias, i)
            shapes == {E.shape}
                      \cup (IF m.scale = None THEN {} ELSE {m.scale.shape})
                      \cup (IF m.bias = None THEN {} ELSE {m.bias.shape})
        IN  /\ last.out.type = "Tensor"
            /\ last.out.shape \in shapes
            /\ \A sh \in shapes : sh \in {<<>>, last.out.shape}
            /\ \A i \in 1..Numel(last.out.shape) :
                   last.out.data[i] = Times(At(E, i), s(i)) + b(i)
            /\ (m.scale = None /\ m.bias = None) => last.out = E

C4_Witness ==
    /\ last.op = "call"
    /\ Receiver.mu.type = "Bernoulli"
    /\ Receiver.scale # None
    /\ Receiver.bias # None
    /\ last.out # ClosedForm(Receiver.mu.probs, last.f)

\* C5 (as stated): evaluating a measure over a family other than Bernoulli and
\* Normal ends in an error, never a number, and the error's kind differs from
\* the kind raised by adding two sa-measures.
C5_UnsupportedIsItsOwnKind ==
    (last.op = "call" /\ Receiver.mu.type \notin {"Bernoulli", "Normal"}) =>
        /\ last.out.type = "Error"
        /\ last.out.kind # SaMeasure_add(Receiver, Receiver).kind

\* C5 (amended): evaluating a measure over a family other than Bernoulli and
\* Normal ends in NotImplementedError, never a number, whatever the scale and
\* bias are; it is the same kind of error as adding two sa-measures raises.
C5_UnsupportedRaisesNotImplemented ==
    (last.op = "call" /\ Receiver.mu.type \notin {"Bernoulli", "Normal"}) =>
        /\ last.out.type = "Error"
        /\ last.out.kind = "NotImplementedError"
        /\ last.out.kind = SaMeasure_add(Receiver, Receiver).kind

C5_Witness ==
    /\ last.op = "call"
    /\ Receiver.mu.type = "Exponential"
    /\ Receiver.scale # None
    /\ Receiver.bias # None
    /\ last.out.type = "Error"

RealScalarTypes == {"int", "float"}

\* C6 (as stated): m + other returns a measure for a real scalar or a tensor,
\* raises NotImplementedError for an SaMeasure, and raises TypeError exactly
\* for operands that are none of the three.
C6_AddOutcomeByType ==
    last.op = "add" =>
        /\ last.arg.type \in RealScalarTypes \cup {"Tensor"} => last.out.type = "Ref"
        /\ last.arg.type = "SaMeasure" => last.out = Error("NotImplementedError")
        /\ last.out = Error("TypeError")
               <=> last.arg.type \notin RealScalarTypes \cup {"Tensor", "SaMeasure"}

\* C10: no operation changes an existing SaMeasure; a successful + or *
\* returns an object that did not exist before, with the receiver's mu; and
\* * keeps an absent scale or bias absent.
C10_MeasuresImmutable ==
    [][/\ Len(heap') >= Len(heap)
       /\ \A i \in 1..Len(heap) : heap'[i] = heap[i]
       /\ (last'.op \in {"add", "mul"} /\ last'.out.type = "Ref") =>
              /\ last'.out.id \notin 1..Len(heap)
              /\ last'.out.id \in 1..Len(heap')
              /\ heap'[last'.out.id].mu = heap[last'.self].mu
              /\ last'.op = "mul" =>
                     /\ heap[last'.self].scale = None => heap'[last'.out.id].scale = None
                     /\ heap[last'.self].bias = None => heap'[last'.out.id].bias = None
      ]_vars

C10_Witness ==
    /\ last.op = "mul"
    /\ last.out.type = "Ref"
    /\ Receiver.scale = None
    /\ Receiver.bias # None
    /\ Returned.scale = None
    /\ Returned.bias # Receiver.bias

\* ============================================== claims, SpecPolytope
\* the k-th of the sa-measures stacked along axis d of a batched measure
MeasureSlice(m, d, k) ==
    LET part(t) == IF t = None THEN None
                   ELSE IF t.shape = <<>> THEN t ELSE Slice(t, d, k)
        mu == IF m.mu.type = "Bernoulli"
              THEN Bernoulli(Slice(m.mu.probs, d, k))
              ELSE Normal(Slice(m.mu.loc, d, k), Slice(m.mu.scale, d, k))
    IN  SaMeasure(mu, part(m.scale), part(m.bias))

\* min over the stacked measures of measure_k(f), element by element
MinOverMeasures(m, d, f) ==
    LET len == batch_shape(m.mu)[d + 1]
        each(k) == SaMeasure_call(MeasureSlice(m, d, k), f, DefaultN)
        shape == each(1).shape
    IN  Tensor(shape, [i \in 1..Numel(shape) |->
                          Minimum({each(k).data[i] : k \in 1..len})])

ReductionAxisPresent(p) ==
    p.dim \in 0..(Len(batch_shape(p.batched_measure.mu)) - 1)

\* C1 (as stated): a polytope of either variant, applied to f, returns a
\* tensor: the elementwise minimum over the stacked measures of measure_i(f),
\* without the reduction axis.
C1_PolytopeReturnsMinTensor ==
    (/\ plast # None
     /\ plast.op = "call"
     /\ poly.batched_measure.mu.type \in {"Bernoulli", "Normal"}
     /\ ReductionAxisPresent(poly)) =>
        /\ plast.out.type = "Tensor"
        /\ plast.out = MinOverMeasures(poly.batched_measure, poly.dim, plast.f)

InputRank == Len(batch_shape(IF IsDistribution(plast.input) THEN plast.input ELSE plast.input.mu))

\* C7 (as stated): construction from a raw distribution or an SaMeasure
\* raises ValueError when there is no batch dimension and succeeds otherwise;
\* with a reduction axis dim it succeeds exactly when the batch rank is at
\* least dim + 1 and raises ValueError otherwise; every constructed polytope
\* has its reduction axis in the batch shape.
C7_ConstructionValidated ==
    /\ (plast # None /\ plast.op = "init") =>
           IF InputRank = 0 THEN plast.out = Error("ValueError")
           ELSE plast.out.type = "InfraPolytope"
    /\ (plast # None /\ plast.op = "init_dim") =>
           IF InputRank >= plast.dim + 1 THEN plast.out.type = "InfraPolytope"
           ELSE plast.out = Error("ValueError")
    /\ poly # None => ReductionAxisPresent(poly)

\* ================================================= claims, SpecCache
\* C8 (as stated): the table is append-only: an entry, once stored, stays in
\* it with the value it was stored with.
C8_CacheAppendOnly ==
    [][\A i \in 1..Len(cache) : \E j \in 1..Len(cache') : cache'[j] = cache[i]]_vars

\* C8 (amended): the table holds at most maxsize keys; while a key is in the
\* table its value is never replaced, and a call that finds the key returns
\* that value; a key leaves the table only as the least recently used one,
\* when a new key is stored into a full table; every call returns
\* hermgauss(n) on the device asked for.
C8_CacheStableUntilEvicted ==
    [][/\ Len(cache') <= CacheMaxsize
       /\ \A i \in 1..Len(cache) :
              \/ \E j \in 1..Len(cache') : cache'[j] = cache[i]
              \/ /\ i = 1
                 /\ Len(cache) = CacheMaxsize
                 /\ cache[1].key \notin CacheKeys(cache')
                 /\ cache'[Len(cache')].key \notin CacheKeys(cache)
       /\ \A c \in Callers :
              (ret'[c] # None /\ ret'[c] # ret[c]) =>
                  /\ ret'[c].value.params = hermgauss(ret'[c].key.n)
                  /\ ret'[c].value.device = ret'[c].key.device
                  /\ (pc[c] = Idle) =>
                         /\ ret'[c].key \in CacheKeys(cache)
                         /\ ret'[c].value = cache[CacheIndex(cache, ret'[c].key)].value
      ]_vars

\* a caller holds the result of a key that has since been evicted
C8_Witness ==
    /\ Len(cache) = CacheMaxsize
    /\ \E c \in Callers :
           /\ ret[c] # None
           /\ ret[c].key \notin CacheKeys(cache)
           /\ \A i \in 1..Len(cache) : cache[i].value.obj > ret[c].value.obj

====
